---- MODULE Spec2Model ----
(***************************************************************************)
(* A model of src/lib/util/ast.js: the return-statement locators           *)
(* findJSXReturnStatement and findReturnStatement, and the prop-types      *)
(* ordering check checkSorted of the sort-prop-types rule.                 *)
(*                                                                         *)
(* A syntax tree is a nested record [type, kids]; a node is named by its   *)
(* path from the Program root (the sequence of child indices), so that     *)
(* node.parent is the path without its last index.  Strings the code       *)
(* compares (property names) are sequences of UTF-16 code units.           *)
(***************************************************************************)
EXTENDS Integers, Sequences, FiniteSets, TLC

VARIABLES
    ast,            \* the parsed file (Program node), read-only input
    node,           \* the node handed to findJSXReturnStatement / findReturnStatement
    scopes,         \* sourceCode.scopeManager.scopes
    bodyNodes,      \* findJSXReturnStatement's bodyNodes
    result,         \* the value returned by the locator
    pc,             \* position of the running call
    declarations,   \* checkSorted's argument
    configuration,  \* context.options[0] after defaulting
    idx,            \* reduce's current index (1-based)
    prev,           \* reduce's accumulator, as an index into declarations
    reports,        \* what context.report received, in order
    compared        \* history: each pair the callback compared, with what it reported

vars == <<ast, node, scopes, bodyNodes, result, pc,
          declarations, configuration, idx, prev, reports, compared>>

(***************************************************************************)
(* Syntax trees.  A node is [type, kids]; kids holds, in source order, the *)
(* children the code reads:                                                *)
(*   Program, BlockStatement      body[1..]                                *)
(*   function types               <<body>>                                 *)
(*   MethodDefinition             <<value>>                                *)
(*   ReturnStatement              <<>> or <<argument>>                     *)
(*   ExpressionStatement          <<expression>>                           *)
(*   IfStatement                  <<consequent>> (alternate null) or       *)
(*                                <<consequent, alternate>>                *)
(*   loops                        <<body>>                                 *)
(*   SwitchStatement              cases[1..]                               *)
(*   SwitchCase                   consequent[1..]                          *)
(***************************************************************************)
N(type, kids) == [type |-> type, kids |-> kids]

SeqsUpTo(S, n) == UNION { [1..k -> S] : k \in 0..n }

RECURSIVE NodeAt(_, _)
NodeAt(tree, path) ==
    IF path = <<>> THEN tree ELSE NodeAt(tree.kids[Head(path)], Tail(path))

\* node.parent, for a node other than the root.
Parent(path) == SubSeq(path, 1, Len(path) - 1)

\* Every node of a tree, as paths from its root.
RECURSIVE Paths(_)
Paths(tree) ==
    {<<>>} \cup UNION { { <<i>> \o q : q \in Paths(tree.kids[i]) } : i \in 1..Len(tree.kids) }

(***************************************************************************)
(* What a locator returns: false, one node, or a list whose elements are   *)
(* nodes (paths) or the value false.                                       *)
(***************************************************************************)
FalseElement == <<0>>
ReturnsFalse == [kind |-> "false", items |-> <<>>]
ReturnsNode(path) == [kind |-> "node", items |-> <<path>>]
ReturnsList(items) == [kind |-> "list", items |-> items]
NotReturned == [kind |-> "idle", items |-> <<>>]

----------------------------------------------------------------------------
(***************************************************************************)
(*                     sort-prop-types: checkSorted                        *)
(***************************************************************************)

\* Bound: the longest declaration sequence explored.
MaxDecls == 3

RequiredMsg == "Required prop types must be listed before all other prop types"
CallbackMsg == "Callback prop types must be listed after all other prop types"
AlphaMsg == "Prop types declarations should be sorted alphabetically"

\* Property names as code-unit sequences.
Name_a == <<97>>
Name_b == <<98>>
Name_c == <<99>>
Name_Banana == <<66, 97, 110, 97, 110, 97>>
Name_apple == <<97, 112, 112, 108, 101>>
Name_onClick == <<111, 110, 67, 108, 105, 99, 107>>
Name_onHover == <<111, 110, 72, 111, 118, 101, 114>>
Name_value == <<118, 97, 108, 117, 101>>
Name_rest == <<114, 101, 115, 116>>

Prop(name, valueName) == [type |-> "Property", key |-> name, valueName |-> valueName]
Spread(name) == [type |-> "SpreadElement", key |-> name, valueName |-> ""]

\* The declarations the explored sequences are built from.
DeclPool ==
    { Prop(Name_a, "isRequired"), Prop(Name_a, "string"), Prop(Name_b, "string"),
      Prop(Name_c, "isRequired"), Prop(Name_Banana, "string"),
      Prop(Name_apple, "string"), Prop(Name_onClick, "func"),
      Prop(Name_onClick, "isRequired"), Prop(Name_value, "string"),
      Prop(Name_onHover, "func"), Spread(Name_rest) }

Configurations ==
    [requiredFirst : BOOLEAN, callbacksLast : BOOLEAN,
     ignoreCase : BOOLEAN, noSortAlphabetically : BOOLEAN]

getKey(n) == n.key

getValueName(n) == IF n.type = "Property" THEN n.valueName ELSE ""

isCallbackPropName(propName) ==
    /\ Len(propName) >= 3
    /\ propName[1] = 111
    /\ propName[2] = 110
    /\ propName[3] \in 65..90

isRequiredProp(n) == getValueName(n) = "isRequired"

toLowerCase(item) ==
    [i \in 1..Len(item) |-> IF item[i] \in 65..90 THEN item[i] + 32 ELSE item[i]]

\* JavaScript's a < b on strings: code-unit lexicographic order.
StringLess(a, b) ==
    \E k \in 1..(Len(b)) :
        /\ \A i \in 1..(k - 1) : i <= Len(a) /\ a[i] = b[i]
        /\ \/ k = Len(a) + 1
           \/ k <= Len(a) /\ a[k] < b[k]

isSpread(n) == n.type = "ExperimentalSpreadProperty" \/ n.type = "SpreadElement"

\* What one run of the reduce callback yields: the accumulator it returns (an
\* index into declarations), the report it files (none or one), and whether a
\* layer returned (settled) or fell through to the next one.
Settle(acc, rep) == [acc |-> acc, report |-> rep, settled |-> TRUE]
FallThrough == [acc |-> 0, report |-> <<>>, settled |-> FALSE]
Report(n, m) == <<[node |-> n, message |-> m]>>

\* Variant: a spread leaves the accumulator where it was.
spreadKeepsBaseline(p, c) == p

\* if (curr is a spread) return decls[idx + 1]
spreadReset(p, c) == c + 1

\* The key each name comparison uses: lower-cased iff ignoreCase.
\* (isCallbackPropName reads the key before this normalisation.)
comparedName(conf, n) == IF conf.ignoreCase THEN toLowerCase(getKey(n)) ELSE getKey(n)

\* Variant: the report is filed on the earlier, non-required node.
requiredFirstReportsEarlier(decls, p, c) ==
    LET previousIsRequired == isRequiredProp(decls[p])
        currentIsRequired == isRequiredProp(decls[c])
    IN  IF previousIsRequired /\ ~currentIsRequired THEN Settle(c, <<>>)
        ELSE IF ~previousIsRequired /\ currentIsRequired
            THEN Settle(c, Report(p, RequiredMsg))
        ELSE FallThrough

\* Variant: the report is filed on the drop from required to non-required.
requiredFirstReportsDrop(decls, p, c) ==
    LET previousIsRequired == isRequiredProp(decls[p])
        currentIsRequired == isRequiredProp(decls[c])
    IN  IF previousIsRequired /\ ~currentIsRequired
            THEN Settle(c, Report(c, RequiredMsg))
        ELSE IF ~previousIsRequired /\ currentIsRequired THEN Settle(c, <<>>)
        ELSE FallThrough

\* if (requiredFirst) { ... }
requiredFirstLayer(decls, p, c) ==
    LET previousIsRequired == isRequiredProp(decls[p])
        currentIsRequired == isRequiredProp(decls[c])
    IN  IF previousIsRequired /\ ~currentIsRequired THEN Settle(c, <<>>)
        ELSE IF ~previousIsRequired /\ currentIsRequired
            THEN Settle(c, Report(c, RequiredMsg))
        ELSE FallThrough

\* Variant: leaving the callback section reports the current node and adopts it.
callbacksLastReportsCurrent(decls, p, c) ==
    LET previousIsCallback == isCallbackPropName(getKey(decls[p]))
        currentIsCallback == isCallbackPropName(getKey(decls[c]))
    IN  IF ~previousIsCallback /\ currentIsCallback THEN Settle(c, <<>>)
        ELSE IF previousIsCallback /\ ~currentIsCallback
            THEN Settle(c, Report(c, CallbackMsg))
        ELSE FallThrough

\* if (callbacksLast) { ... }
callbacksLastLayer(decls, p, c) ==
    LET previousIsCallback == isCallbackPropName(getKey(decls[p]))
        currentIsCallback == isCallbackPropName(getKey(decls[c]))
    IN  IF ~previousIsCallback /\ currentIsCallback THEN Settle(c, <<>>)
        ELSE IF previousIsCallback /\ ~currentIsCallback
            THEN Settle(p, Report(p, CallbackMsg))
        ELSE FallThrough

\* Variant: the out-of-order element is adopted as the accumulator.
alphabeticalAdoptsCurrent(decls, conf, p, c) ==
    LET prevPropName == comparedName(conf, decls[p])
        currentPropName == comparedName(conf, decls[c])
    IN  IF ~conf.noSortAlphabetically /\ StringLess(currentPropName, prevPropName)
            THEN Settle(c, Report(c, AlphaMsg))
        ELSE Settle(c, <<>>)

\* if (!noSortAlphabetically && currentPropName < prevPropName) { ... } return curr
alphabeticalLayer(decls, conf, p, c) ==
    LET prevPropName == comparedName(conf, decls[p])
        currentPropName == comparedName(conf, decls[c])
    IN  IF ~conf.noSortAlphabetically /\ StringLess(currentPropName, prevPropName)
            THEN Settle(p, Report(c, AlphaMsg))
        ELSE Settle(c, <<>>)

\* Variant: a layer that reports does not return, so the later layers still
\* run and report for the same pair.
CallbackAllLayersReport(decls, conf, p, c) ==
    LET l1 == IF conf.requiredFirst THEN requiredFirstLayer(decls, p, c) ELSE FallThrough
        l2 == IF conf.callbacksLast THEN callbacksLastLayer(decls, p, c) ELSE FallThrough
        l3 == alphabeticalLayer(decls, conf, p, c)
        acc == IF l1.settled THEN l1.acc ELSE IF l2.settled THEN l2.acc ELSE l3.acc
    IN  IF isSpread(decls[c]) THEN Settle(spreadReset(p, c), <<>>)
        ELSE IF l1.settled /\ l1.report = <<>> THEN l1
        ELSE IF l1.settled THEN Settle(acc, l1.report \o l2.report \o l3.report)
        ELSE IF l2.settled /\ l2.report = <<>> THEN l2
        ELSE IF l2.settled THEN Settle(acc, l2.report \o l3.report)
        ELSE l3

\* The reduce callback on prev = decls[p], curr = decls[c].
Callback(decls, conf, p, c) ==
    IF isSpread(decls[c]) THEN Settle(spreadReset(p, c), <<>>)
    ELSE IF conf.requiredFirst /\ requiredFirstLayer(decls, p, c).settled
        THEN requiredFirstLayer(decls, p, c)
    ELSE IF conf.callbacksLast /\ callbacksLastLayer(decls, p, c).settled
        THEN callbacksLastLayer(decls, p, c)
    ELSE alphabeticalLayer(decls, conf, p, c)

SortIdle ==
    /\ declarations = <<>>
    /\ configuration = [requiredFirst |-> FALSE, callbacksLast |-> FALSE,
                        ignoreCase |-> FALSE, noSortAlphabetically |-> FALSE]
    /\ idx = 0
    /\ prev = 0
    /\ reports = <<>>
    /\ compared = <<>>

TreeIdle ==
    /\ ast = N("Program", <<>>)
    /\ node = <<>>
    /\ scopes = <<>>
    /\ bodyNodes = <<>>
    /\ result = NotReturned

InitSort ==
    /\ TreeIdle
    /\ pc = "start"
    /\ declarations \in SeqsUpTo(DeclPool, MaxDecls)
    /\ configuration \in Configurations
    /\ idx = 0
    /\ prev = 0
    /\ reports = <<>>
    /\ compared = <<>>

\* checkSorted is entered: reduce starts at index 0 with declarations[0] as
\* the accumulator.
CheckSortedCall ==
    /\ pc = "start"
    /\ pc' = "reduce"
    /\ idx' = 1
    /\ prev' = 1
    /\ UNCHANGED <<ast, node, scopes, bodyNodes, result,
                   declarations, configuration, reports, compared>>

\* One invocation of the reduce callback.
CheckSortedStep ==
    /\ pc = "reduce"
    /\ idx <= Len(declarations)
    /\ LET r == Callback(declarations, configuration, prev, idx)
       IN  /\ prev' = r.acc
           /\ reports' = reports \o r.report
           /\ compared' = IF isSpread(declarations[idx]) THEN compared
                          ELSE Append(compared,
                                 [prev |-> prev, curr |-> idx, report |-> r.report])
    /\ idx' = idx + 1
    /\ UNCHANGED <<ast, node, scopes, bodyNodes, result, pc,
                   declarations, configuration>>

\* reduce has visited every element: checkSorted returns.
CheckSortedReturn ==
    /\ pc = "reduce"
    /\ idx > Len(declarations)
    /\ pc' = "done"
    /\ UNCHANGED <<ast, node, scopes, bodyNodes, result,
                   declarations, configuration, idx, prev, reports, compared>>

NextSort == CheckSortedCall \/ CheckSortedStep \/ CheckSortedReturn

SpecSort == InitSort /\ [][NextSort]_vars

----------------------------------------------------------------------------
(***************************************************************************)
(*                       findJSXReturnStatement                            *)
(***************************************************************************)

\* Bounds: statements in the body of an outer function, cases in a switch.
MaxStatements == 2
MaxCases == 2

isFunctionType(n) ==
    n.type \in {"FunctionDeclaration", "FunctionExpression", "ArrowFunctionExpression"}

isSupportedBodyType(n) ==
    n.type \in {"WhileStatement", "DoWhileStatement", "ForStatement", "ForInStatement",
                "ForOfStatement", "IfStatement", "ExpressionStatement"}

isReturnOrYield(n) == n.type = "ReturnStatement" \/ n.type = "YieldExpression"

\* The node types that carry a `body` property, and those whose body is an
\* array of statements.
hasBody(n) ==
    n.type \in {"Program", "BlockStatement", "FunctionDeclaration", "FunctionExpression",
                "ArrowFunctionExpression", "WhileStatement", "DoWhileStatement",
                "ForStatement", "ForInStatement", "ForOfStatement"}
bodyIsArray(n) == n.type \in {"Program", "BlockStatement"}

\* An array, even an empty one, is truthy: if (bodyNodes).
arrayIsTruthy(list) == TRUE

\* The upward walk of loopNodes from bnode (at path p) along parent: "reject"
\* at a function other than the target, "accept" at the target, "end" when
\* parent runs out at the root.
RECURSIVE parentWalk(_, _, _)
parentWalk(tree, target, p) ==
    IF isFunctionType(NodeAt(tree, p)) /\ p # target THEN "reject"
    ELSE IF p = target THEN "accept"
    ELSE IF p = <<>> THEN "end"
    ELSE parentWalk(tree, target, Parent(p))

\* flatMap(xs, (_) => _) on loopNodes results: a list is spliced in, a node or
\* false is kept as one element.
RECURSIVE flatten(_)
flatten(rs) ==
    IF rs = <<>> THEN <<>>
    ELSE (IF Head(rs).kind = "list" THEN Head(rs).items
          ELSE IF Head(rs).kind = "node" THEN Head(rs).items
          ELSE <<FalseElement>>) \o flatten(Tail(rs))

\* .filter((n) => n)
filterTruthy(items) == SelectSeq(items, LAMBDA e : e # FalseElement)

\* findJSXReturnStatement's loopNodes on the node at path b; `target` is the
\* node the locator was called on.
RECURSIVE loopNodes(_, _, _)
loopNodes(tree, target, b) ==
    LET bnode == NodeAt(tree, b)
        each(ps) == [k \in 1..Len(ps) |-> loopNodes(tree, target, ps[k])]
        walk == parentWalk(tree, target, b)
    IN  IF (isReturnOrYield(bnode) \/ isFunctionType(bnode)) /\ walk = "reject"
            THEN ReturnsFalse
        ELSE IF (isReturnOrYield(bnode) \/ isFunctionType(bnode)) /\ walk = "accept"
            THEN ReturnsNode(b)
        ELSE IF bnode.type = "ExpressionStatement" THEN ReturnsNode(b \o <<1>>)
        ELSE IF bnode.type = "IfStatement" THEN
            IF Len(bnode.kids) = 1 THEN
                IF bnode.kids[1].type # "BlockStatement"
                THEN loopNodes(tree, target, b \o <<1>>)
                ELSE ReturnsFalse
            ELSE LET ifStatements ==
                        (IF bnode.kids[1].type # "BlockStatement" THEN <<b \o <<1>>>> ELSE <<>>)
                        \o (IF bnode.kids[2].type # "BlockStatement" THEN <<b \o <<2>>>> ELSE <<>>)
                 IN  ReturnsList(filterTruthy(flatten(each(ifStatements))))
        ELSE IF isSupportedBodyType(bnode) /\ hasBody(bnode)
                /\ bnode.kids[1].type # "BlockStatement"
            THEN loopNodes(tree, target, b \o <<1>>)
        ELSE IF bnode.type = "SwitchStatement" THEN
            LET perCase(c) ==
                    LET consequent == [k \in 1..Len(bnode.kids[c].kids) |-> b \o <<c, k>>]
                    IN  IF Len(consequent) # 0 THEN ReturnsList(flatten(each(consequent)))
                        ELSE ReturnsFalse
            IN  ReturnsList(filterTruthy(flatten([c \in 1..Len(bnode.kids) |-> perCase(c)])))
        ELSE ReturnsFalse

\* What one scope hands to bodyNodes, after the filter and the flattening of
\* lines 124: nothing (null or an empty list), one node, or a statement list.
scopeCandidates(tree, scope) ==
    LET block == NodeAt(tree, scope.block)
        kidsAt(p) == [k \in 1..Len(NodeAt(tree, p).kids) |-> p \o <<k>>]
        returning(ps) ==
            SelectSeq(ps, LAMBDA q : NodeAt(tree, q).type = "ReturnStatement"
                                     \/ isSupportedBodyType(NodeAt(tree, q)))
    IN  IF scope.type = "function" /\ isFunctionType(block) THEN
            IF ~hasBody(block.kids[1]) THEN <<scope.block>>
            ELSE IF bodyIsArray(block.kids[1]) THEN returning(kidsAt(scope.block \o <<1>>))
            ELSE <<>>
        ELSE IF scope.type = "block" /\ block.type = "BlockStatement" THEN kidsAt(scope.block)
        ELSE IF scope.type = "switch" /\ block.type = "SwitchStatement" THEN <<scope.block>>
        ELSE IF scope.type = "for" /\ block.kids[1].type # "BlockStatement"
            THEN <<scope.block \o <<1>>>>
        ELSE <<>>

RECURSIVE concatAll(_)
concatAll(ss) == IF ss = <<>> THEN <<>> ELSE Head(ss) \o concatAll(Tail(ss))

\* The scopes of a file as the scope manager lists them (in source order): the
\* global scope, one function scope per function and, for ES2015 sources, a
\* block scope per block that is not a function's body, a switch scope per
\* switch statement and a for scope per for statement.
RECURSIVE scopesOf(_, _, _)
scopesOf(tree, p, es6) ==
    LET n == NodeAt(tree, p)
        own == IF n.type = "Program" THEN <<[type |-> "global", block |-> p]>>
               ELSE IF isFunctionType(n) THEN <<[type |-> "function", block |-> p]>>
               ELSE IF es6 /\ n.type = "BlockStatement" /\ ~isFunctionType(NodeAt(tree, Parent(p)))
                   THEN <<[type |-> "block", block |-> p]>>
               ELSE IF es6 /\ n.type = "SwitchStatement" THEN <<[type |-> "switch", block |-> p]>>
               ELSE IF es6 /\ n.type \in {"ForStatement", "ForInStatement", "ForOfStatement"}
                   THEN <<[type |-> "for", block |-> p]>>
               ELSE <<>>
    IN  own \o concatAll([k \in 1..Len(n.kids) |-> scopesOf(tree, p \o <<k>>, es6)])

\* The files explored: one outer function, alone or followed by a sibling
\* function.  The outer function is an arrow function with an expression body
\* or has a block body of at most maxStatements statements, each a simple
\* statement, a block, an if, a loop, a switch of at most maxCases cases, or a
\* statement holding an inner function.
Identifier == N("Identifier", <<>>)
ReturnStatement == N("ReturnStatement", <<>>)
YieldExpression == N("YieldExpression", <<>>)
ExpressionStatement(e) == N("ExpressionStatement", <<e>>)
BlockStatement(stmts) == N("BlockStatement", stmts)

SimpleStatements ==
    { ReturnStatement, ExpressionStatement(Identifier), ExpressionStatement(YieldExpression),
      N("VariableDeclaration", <<>>) }

InnerBodies == {BlockStatement(<<>>)} \cup { BlockStatement(<<st>>) : st \in SimpleStatements }

Branches ==
    SimpleStatements
    \cup {BlockStatement(<<>>), BlockStatement(<<ReturnStatement>>)}
    \cup {N("ReturnStatement", <<N("ArrowFunctionExpression", <<Identifier>>)>>)}

ElseBranches ==
    Branches \cup { N("IfStatement", <<ReturnStatement>>),
                    N("IfStatement", <<ReturnStatement, ReturnStatement>>) }

Consequents == { <<>>, <<ReturnStatement>>, <<ExpressionStatement(Identifier)>> }

BodyStatements(maxCases) ==
    SimpleStatements
    \cup {BlockStatement(<<>>), BlockStatement(<<ReturnStatement>>)}
    \cup { N("IfStatement", <<c>>) : c \in Branches }
    \cup { N("IfStatement", <<c, a>>) : c \in Branches, a \in ElseBranches }
    \cup { N(t, <<b>>) : t \in {"WhileStatement", "ForStatement"}, b \in Branches }
    \cup { N("SwitchStatement", [k \in DOMAIN cs |-> N("SwitchCase", cs[k])])
           : cs \in SeqsUpTo(Consequents, maxCases) }
    \cup { N("FunctionDeclaration", <<b>>) : b \in InnerBodies }
    \cup { N("ReturnStatement", <<N("FunctionExpression", <<b>>)>>) : b \in InnerBodies }
    \cup { N("ReturnStatement", <<N("ArrowFunctionExpression", <<Identifier>>)>>) }

OuterFunctions(maxStatements, maxCases) ==
    { N("FunctionDeclaration", <<BlockStatement(b)>>)
      : b \in SeqsUpTo(BodyStatements(maxCases), maxStatements) }
    \cup { N("ArrowFunctionExpression", <<Identifier>>) }

SiblingFunctions ==
    { N("FunctionDeclaration", <<BlockStatement(<<st>>)>>)
      : st \in {ReturnStatement, ExpressionStatement(Identifier)} }

Programs(maxStatements, maxCases) ==
    { N("Program", <<f>>) : f \in OuterFunctions(maxStatements, maxCases) }
    \cup { N("Program", <<f, g>>)
           : f \in OuterFunctions(maxStatements, maxCases), g \in SiblingFunctions }

\* The nodes the locator is called on: any function, any return or yield, and
\* the Program node (neither function-like nor a return or yield).
Targets(tree) ==
    { q \in Paths(tree) : \/ isFunctionType(NodeAt(tree, q))
                          \/ isReturnOrYield(NodeAt(tree, q))
                          \/ q = <<>> }

InitJSX ==
    /\ SortIdle
    /\ pc = "start"
    /\ ast \in Programs(MaxStatements, MaxCases)
    /\ node \in Targets(ast)
    /\ scopes \in { scopesOf(ast, <<>>, es6) : es6 \in BOOLEAN }
    /\ bodyNodes = <<>>
    /\ result = NotReturned

\* Lines 26-29: bodyNodes starts empty, or as [node] for a return or yield.
JSXEnter ==
    /\ pc = "start"
    /\ bodyNodes' = IF isReturnOrYield(NodeAt(ast, node)) THEN <<node>> ELSE <<>>
    /\ pc' = IF isFunctionType(NodeAt(ast, node)) THEN "enumerate" ELSE "reduce"
    /\ UNCHANGED <<ast, node, scopes, result,
                   declarations, configuration, idx, prev, reports, compared>>

\* Lines 79-125: a function-like node takes its candidates from every scope of
\* the file.
JSXEnumerate ==
    /\ pc = "enumerate"
    /\ bodyNodes' = concatAll([k \in 1..Len(scopes) |-> scopeCandidates(ast, scopes[k])])
    /\ pc' = "reduce"
    /\ UNCHANGED <<ast, node, scopes, result,
                   declarations, configuration, idx, prev, reports, compared>>

\* Lines 126-127.
JSXReduce ==
    /\ pc = "reduce"
    /\ result' = IF arrayIsTruthy(bodyNodes)
                 THEN ReturnsList(flatten([k \in 1..Len(bodyNodes) |->
                                              loopNodes(ast, node, bodyNodes[k])]))
                 ELSE ReturnsFalse
    /\ pc' = "done"
    /\ UNCHANGED <<ast, node, scopes, bodyNodes,
                   declarations, configuration, idx, prev, reports, compared>>

NextJSX == JSXEnter \/ JSXEnumerate \/ JSXReduce

SpecJSX == InitJSX /\ [][NextJSX]_vars

----------------------------------------------------------------------------
(***************************************************************************)
(*                        findReturnStatement                              *)
(***************************************************************************)

\* Bound: the number of statement and case nodes in a function body explored.
MaxBodyNodes == 6

PlainStatement == N("ExpressionStatement", <<N("Identifier", <<>>)>>)

\* Statement lists, single statements and case lists with exactly n statement
\* and case nodes.
RECURSIVE StmtListsOfSize(_), StmtsOfSize(_), CaseListsOfSize(_)
StmtsOfSize(n) ==
    IF n = 1 THEN {ReturnStatement, PlainStatement, N("SwitchStatement", <<>>)}
    ELSE { N("SwitchStatement", cs) : cs \in CaseListsOfSize(n - 1) }

StmtListsOfSize(n) ==
    IF n = 0 THEN {<<>>}
    ELSE UNION { { <<st>> \o rest : st \in StmtsOfSize(k), rest \in StmtListsOfSize(n - k) }
                 : k \in 1..n }

CaseListsOfSize(n) ==
    IF n = 0 THEN {<<>>}
    ELSE UNION { { <<N("SwitchCase", l)>> \o rest :
                      l \in StmtListsOfSize(k - 1), rest \in CaseListsOfSize(n - k) }
                 : k \in 1..n }

\* The nodes findReturnStatement is called on: a function with a block body,
\* a method (whose value is the function) and an arrow function whose body is
\* an expression.
FunctionInputs(maxNodes) ==
    LET bodies == UNION { StmtListsOfSize(n) : n \in 0..maxNodes }
    IN  { N("FunctionDeclaration", <<N("BlockStatement", b)>>) : b \in bodies }
        \cup { N("MethodDefinition", <<N("FunctionExpression", <<N("BlockStatement", b)>>)>>)
               : b \in bodies }
        \cup { N("ArrowFunctionExpression", <<N("Identifier", <<>>)>>) }

\* Variant: the switch is entered at its first case.
RECURSIVE ret_loopNodesFirstCase(_, _, _)
ret_loopNodesFirstCase(tree, owner, i) ==
    IF i = 0 THEN ReturnsFalse
    ELSE LET here == owner \o <<i>>
             n == NodeAt(tree, here)
         IN  IF n.type = "ReturnStatement" THEN ReturnsNode(here)
             ELSE IF n.type = "SwitchStatement" /\ Len(n.kids) - 1 >= 0
                 THEN ret_loopNodesFirstCase(tree, here \o <<1>>, Len(n.kids[1].kids))
             ELSE ret_loopNodesFirstCase(tree, owner, i - 1)

\* findReturnStatement's loopNodes on the statement list owned by the node at
\* `owner` (a block's body, a case's consequent), from index i down to 1.
RECURSIVE ret_loopNodes(_, _, _)
ret_loopNodes(tree, owner, i) ==
    IF i = 0 THEN ReturnsFalse
    ELSE LET here == owner \o <<i>>
             n == NodeAt(tree, here)
             j == Len(n.kids)
         IN  IF n.type = "ReturnStatement" THEN ReturnsNode(here)
             ELSE IF n.type = "SwitchStatement" /\ j - 1 >= 0
                 THEN ret_loopNodes(tree, here \o <<j>>, Len(n.kids[j].kids))
             ELSE ret_loopNodes(tree, owner, i - 1)

\* node.body.body and node.value.body.body are statement lists only under a
\* BlockStatement.
hasStatementList(tree, path) ==
    /\ NodeAt(tree, path).kids # <<>>
    /\ NodeAt(tree, path \o <<1>>).type = "BlockStatement"

findReturnStatement(tree) ==
    LET hasValue == tree.type = "MethodDefinition"
        fn == IF hasValue THEN <<1>> ELSE <<>>
    IN  IF ~hasStatementList(tree, fn) THEN ReturnsFalse
        ELSE ret_loopNodes(tree, fn \o <<1>>, Len(NodeAt(tree, fn \o <<1>>).kids))

InitRet ==
    /\ SortIdle
    /\ pc = "start"
    /\ ast \in FunctionInputs(MaxBodyNodes)
    /\ node = <<>>
    /\ scopes = <<>>
    /\ bodyNodes = <<>>
    /\ result = NotReturned

FindReturnStatement ==
    /\ pc = "start"
    /\ result' = findReturnStatement(ast)
    /\ pc' = "done"
    /\ UNCHANGED <<ast, node, scopes, bodyNodes,
                   declarations, configuration, idx, prev, reports, compared>>

NextRet == FindReturnStatement

SpecRet == InitRet /\ [][NextRet]_vars

----------------------------------------------------------------------------
(***************************************************************************)
(*                  Properties of findJSXReturnStatement                   *)
(***************************************************************************)

IsPrefix(p, q) == Len(p) <= Len(q) /\ SubSeq(q, 1, Len(p)) = p

\* findJSXReturnStatement has returned from a call on a function-like node.
ResolvedFunction == pc = "done" /\ isFunctionType(NodeAt(ast, node))

ResultElements == { result.items[k] : k \in 1..Len(result.items) }

\* A function-like node strictly between the target and the node at path e.
CrossesInnerFunction(e) ==
    \E k \in (Len(node) + 1)..(Len(e) - 1) : isFunctionType(NodeAt(ast, SubSeq(e, 1, k)))

\* The node at e lies in the target function (the target itself is let
\* through) and in no function nested in it.
OnTargetSurface(e) ==
    /\ e # FalseElement
    /\ IsPrefix(node, e)
    /\ ~CrossesInnerFunction(e)

\* C1: every element of the list returned for a function-like target is a
\* node inside the target whose nearest enclosing function is the target:
\* never a non-node value, a node of a sibling or enclosing function, or the
\* expression of a statement inside a nested function.
C1_ResultWithinTarget ==
    ResolvedFunction =>
        /\ result.kind = "list"
        /\ \A e \in ResultElements : OnTargetSurface(e)

\* C2: the locator returns false, not a list, whenever the enumeration found
\* no candidate statement, and a list only when it found at least one.
C2_FalseWhenNoCandidate ==
    pc = "done" =>
        /\ bodyNodes = <<>> => result = ReturnsFalse
        /\ result.kind = "list" => bodyNodes # <<>>

\* C3: a return or yield inside the target that belongs to an inner function
\* (a function-like node lies between it and the target) is never in the
\* result.
C3_BoundaryOpacity ==
    ResolvedFunction =>
        \A r \in Paths(ast) :
            ( /\ isReturnOrYield(NodeAt(ast, r))
              /\ IsPrefix(node, r)
              /\ CrossesInnerFunction(r) ) => r \notin ResultElements

\* The target's body is a single if/else whose branches are return statements.
IfElseOfReturns ==
    /\ NodeAt(ast, node).kids[1].type = "BlockStatement"
    /\ Len(NodeAt(ast, node \o <<1>>).kids) = 1
    /\ NodeAt(ast, node \o <<1, 1>>).type = "IfStatement"
    /\ Len(NodeAt(ast, node \o <<1, 1>>).kids) = 2
    /\ NodeAt(ast, node \o <<1, 1, 1>>).type = "ReturnStatement"
    /\ NodeAt(ast, node \o <<1, 1, 2>>).type = "ReturnStatement"

\* C4: for a function whose body is a single brace-less if/else with a return
\* in each branch, the result is the list of exactly those two returns,
\* consequent first.
C4_IfElseCompleteness ==
    (ResolvedFunction /\ IfElseOfReturns) =>
        result = ReturnsList(<<node \o <<1, 1, 1>>, node \o <<1, 1, 2>>>>)

----------------------------------------------------------------------------
(***************************************************************************)
(*                   Properties of findReturnStatement                     *)
(***************************************************************************)

\* The function whose statement list is scanned, its body block, and that
\* block's last statement.
RetFunction == IF ast.type = "MethodDefinition" THEN <<1>> ELSE <<>>
RetBlock == RetFunction \o <<1>>
RetTopCount == Len(NodeAt(ast, RetBlock).kids)
RetLast == RetBlock \o <<RetTopCount>>

\* findReturnStatement has returned for a function whose last top-level
\* statement is a SwitchStatement.
EndsInSwitch ==
    /\ pc = "done"
    /\ hasStatementList(ast, RetFunction)
    /\ RetTopCount >= 1
    /\ NodeAt(ast, RetLast).type = "SwitchStatement"

CaseCount == Len(NodeAt(ast, RetLast).kids)
LastCase == RetLast \o <<CaseCount>>

ContainsReturn(path) ==
    \E q \in Paths(NodeAt(ast, path)) : NodeAt(ast, path \o q).type = "ReturnStatement"

\* The result is what the last case's consequent list yields, and nothing
\* outside that case.
FromLastCaseOnly ==
    /\ result = ret_loopNodes(ast, LastCase, Len(NodeAt(ast, LastCase).kids))
    /\ result.kind \in {"false", "node"}
    /\ result.kind = "node" =>
          /\ IsPrefix(LastCase, result.items[1])
          /\ NodeAt(ast, result.items[1]).type = "ReturnStatement"
    /\ ~ContainsReturn(LastCase) => result = ReturnsFalse

\* C5 as stated: whenever the last top-level statement is a SwitchStatement,
\* with any number of cases including none, the result comes from the last
\* case's consequent list alone; the statements before the switch are never
\* scanned (so a switch without cases yields false).
C5_AnyCaseCount ==
    EndsInSwitch =>
        IF CaseCount = 0 THEN result = ReturnsFalse ELSE FromLastCaseOnly

\* C5 amended: when the last top-level statement is a SwitchStatement with at
\* least one case, the result is exactly the backward scan of the last case's
\* consequent list: no earlier case and no statement before the switch is
\* examined, and it is false when the last case holds no return.  A switch
\* without cases is skipped and the scan goes on with the statements before it.
C5_LastCaseOnly ==
    EndsInSwitch =>
        IF CaseCount = 0 THEN result = ret_loopNodes(ast, RetBlock, RetTopCount - 1)
        ELSE FromLastCaseOnly

C5_Witness ==
    /\ EndsInSwitch
    /\ CaseCount >= 2
    /\ ContainsReturn(RetLast \o <<1>>)
    /\ RetTopCount >= 2
    /\ NodeAt(ast, RetBlock \o <<1>>).type = "ReturnStatement"
    /\ ~ContainsReturn(LastCase)
    /\ result = ReturnsFalse

----------------------------------------------------------------------------
(***************************************************************************)
(*                      Properties of checkSorted                          *)
(***************************************************************************)

Running == pc \in {"reduce", "done"}
Finished == pc = "done"
NDecls == Len(declarations)

\* The reduce callback is about to run on a declaration that is not a spread.
AtComparison == pc = "reduce" /\ idx <= NDecls /\ ~isSpread(declarations[idx])

\* Requiredness and callback-ness of a declaration, as the rule defines them.
Req(i) == isRequiredProp(declarations[i])
Cb(i) == isCallbackPropName(getKey(declarations[i]))

\* The required-first layer returns for the pair (prev, idx).
Layer1Settles == configuration.requiredFirst /\ Req(prev) # Req(idx)
\* The callbacks-last layer returns for the pair (prev, idx).
Layer2Settles == configuration.callbacksLast /\ Cb(prev) # Cb(idx)

NodesReported(msg) == { reports[k].node : k \in { j \in 1..Len(reports) : reports[j].message = msg } }
CountReported(msg) == Cardinality({ j \in 1..Len(reports) : reports[j].message = msg })

\* Positions before n where a non-required declaration (not a spread) is
\* immediately followed by a required one.
RequiredAfterOptional(n) ==
    { i \in 2..n : /\ ~isSpread(declarations[i - 1])
                   /\ ~Req(i - 1)
                   /\ Req(i) }

C7_Sequence ==
    <<Prop(Name_a, "isRequired"), Prop(Name_b, "string"), Prop(Name_c, "isRequired")>>

C7_Case == Finished /\ declarations = C7_Sequence /\ configuration.requiredFirst

C8_Step ==
    (AtComparison /\ configuration.callbacksLast /\ ~Layer1Settles) =>
        /\ (Cb(prev) /\ ~Cb(idx)) =>
              /\ reports' = reports \o Report(prev, CallbackMsg)
              /\ prev # idx
              /\ prev' = prev
        /\ (~Cb(prev) /\ Cb(idx)) =>
              /\ reports' = reports
              /\ prev' = idx

C8_Sequence ==
    <<Prop(Name_onClick, "func"), Prop(Name_value, "string"), Prop(Name_onHover, "func")>>

\* C8: with callbacksLast, leaving the callback section (accumulator a
\* callback, current not) reports 'Callback prop types must be listed after
\* all other prop types' on the earlier callback node, which stays the
\* accumulator; entering it reports nothing and adopts the callback; and
\* [onClick, value, onHover] yields one diagnostic, on onClick.
C8_CallbacksLast ==
    /\ [][C8_Step]_vars
    /\ [](  (Finished /\ declarations = C8_Sequence /\ configuration.callbacksLast)
            => reports = Report(1, CallbackMsg))

C8_Witness ==
    /\ Finished /\ declarations = C8_Sequence /\ configuration.callbacksLast
    /\ reports = Report(1, CallbackMsg)
    /\ prev = 3

SpreadBetween(i, j) == \E k \in i..j : isSpread(declarations[k])

FlattenReports(h) ==
    LET F[k \in 0..Len(h)] == IF k = 0 THEN <<>> ELSE F[k - 1] \o h[k].report
    IN  F[Len(h)]

C9_Sequence == <<Prop(Name_b, "string"), Spread(Name_rest), Prop(Name_a, "string")>>

\* C9: a spread element is never compared and never reported; the element
\* after it is the next accumulator; every report comes from a comparison of
\* two declarations with no spread between them; and [b, ...rest, a] with
\* only the alphabetical layer yields no diagnostic.
C9_SpreadResets ==
    Running =>
        /\ \A k \in 1..Len(compared) :
              /\ compared[k].prev <= compared[k].curr
              /\ ~SpreadBetween(compared[k].prev, compared[k].curr)
        /\ reports = FlattenReports(compared)
        /\ \A k \in 1..Len(reports) : ~isSpread(declarations[reports[k].node])
        /\ (idx >= 2 /\ isSpread(declarations[idx - 1])) => prev = idx
        /\ ( /\ Finished
             /\ declarations = C9_Sequence
             /\ ~configuration.requiredFirst /\ ~configuration.callbacksLast
             /\ ~configuration.noSortAlphabetically ) => reports = <<>>

C9_Witness ==
    /\ Finished /\ declarations = C9_Sequence
    /\ ~configuration.requiredFirst /\ ~configuration.callbacksLast
    /\ ~configuration.noSortAlphabetically
    /\ Len(compared) = 2
    /\ compared[2].prev = 3

\* Code-unit order written out on heads and tails: a sorts strictly before b.
RECURSIVE SortsBefore(_, _)
SortsBefore(a, b) ==
    IF b = <<>> THEN FALSE
    ELSE IF a = <<>> THEN TRUE
    ELSE IF Head(a) # Head(b) THEN Head(a) < Head(b)
    ELSE SortsBefore(Tail(a), Tail(b))

\* ASCII lower-casing of one code unit.
LowerUnit(u) == IF u >= 65 /\ u <= 90 THEN u + 32 ELSE u
Lowered(a) == [i \in DOMAIN a |-> LowerUnit(a[i])]

C10_Key(i) ==
    IF configuration.ignoreCase THEN Lowered(declarations[i].key)
    ELSE declarations[i].key

\* What C10 requires of one callback run that reaches the alphabetical layer.
C10_Step ==
    (AtComparison /\ ~Layer1Settles /\ ~Layer2Settles) =>
        IF ~configuration.noSortAlphabetically /\ SortsBefore(C10_Key(idx), C10_Key(prev))
        THEN /\ reports' = reports \o Report(idx, AlphaMsg)
             /\ prev' = prev
        ELSE /\ reports' = reports
             /\ prev' = idx

C10_Sequence == <<Prop(Name_Banana, "string"), Prop(Name_apple, "string")>>

C10_Case == Finished /\ declarations = C10_Sequence /\ ~configuration.noSortAlphabetically

\* C10: unless alphabetical checking is disabled, a pair no earlier layer
\* settles whose current key sorts strictly before the accumulator's key
\* (lower-cased iff ignoreCase, code-unit order) is reported on the current
\* node and the accumulator is kept; otherwise the current node becomes the
\* accumulator without a report.  [Banana, apple] is reported on apple with
\* ignoreCase and not reported without it.
C10_Alphabetical ==
    /\ [][C10_Step]_vars
    /\ [](C10_Case => IF configuration.ignoreCase
                      THEN reports = Report(2, AlphaMsg)
                      ELSE reports = <<>>)

C10_Witness ==
    /\ C10_Case /\ configuration.ignoreCase
    /\ reports = Report(2, AlphaMsg) /\ prev = 1

\* The declarations before position n that are not spreads.
NonSpreadBefore(n) == { i \in 1..(n - 1) : ~isSpread(declarations[i]) }

\* What C11 requires of one callback run: at most one report is added; a pair
\* the required-first layer settles gets that layer's report or none, whatever
\* the later layers would say; a pair it leaves to the callbacks-last layer
\* gets that layer's report or none; only a pair neither settles can get the
\* alphabetical report.
C11_Step ==
    (pc = "reduce" /\ idx <= NDecls) =>
        /\ \/ reports' = reports
           \/ \E r \in {reports'[Len(reports')]} : reports' = Append(reports, r)
        /\ isSpread(declarations[idx]) => reports' = reports
        /\ (AtComparison /\ Layer1Settles) =>
              reports' = IF ~Req(prev) /\ Req(idx)
                         THEN reports \o Report(idx, RequiredMsg) ELSE reports
        /\ (AtComparison /\ ~Layer1Settles /\ Layer2Settles) =>
              reports' = IF Cb(prev) /\ ~Cb(idx)
                         THEN reports \o Report(prev, CallbackMsg) ELSE reports
        /\ (AtComparison /\ ~Layer1Settles /\ ~Layer2Settles) =>
              \/ reports' = reports
              \/ reports' = reports \o Report(idx, AlphaMsg)

\* C11: each pair is judged by the layers in the order required-first,
\* callbacks-last, alphabetical; the first layer that applies (by reporting or
\* by silently accepting a transition) is the only one heard for that pair, so
\* each processed element adds at most one diagnostic and the diagnostics
\* never outnumber the non-spread elements processed.
C11_LayerShortCircuit ==
    /\ [][C11_Step]_vars
    /\ [](Running => /\ Len(reports) <= Cardinality(NonSpreadBefore(idx))
                     /\ Len(reports) = CountReported(RequiredMsg)
                                       + CountReported(CallbackMsg)
                                       + CountReported(AlphaMsg))

C11_Sequence == <<Prop(Name_onClick, "func"), Prop(Name_a, "isRequired")>>

\* The required-first layer settles a pair that the callbacks-last layer and
\* the alphabetical layer would both report.
C11_Witness ==
    /\ Finished /\ declarations = C11_Sequence
    /\ configuration.requiredFirst /\ configuration.callbacksLast
    /\ ~configuration.noSortAlphabetically
    /\ reports = Report(2, RequiredMsg)
    /\ prev = 2

====
